---- MODULE Spec2Model ----
(***************************************************************************)
(* Model of nix-apprun (src/src/main.rs, src/src/id_map.rs): one run of    *)
(* the launcher, from main() to execve, one action per system call or      *)
(* branch of the code, plus the probe threads spawned by with_timeout.     *)
(***************************************************************************)
EXTENDS Integers, Sequences, FiniteSets, TLC

(* ---------------------------- bounds ----------------------------------- *)
\* longest explicit --apprun-bind list explored
MaxBinds == 2
\* the mount_timeout duration, in clock ticks of the model
TimeoutTicks == 1

(* ------------------------- the host file system ------------------------ *)
\* immediate children of the host root that fs::read_dir("/") can return
RootEntries == {"/bin", "/init", "/nix"}
\* paths a user may name in an explicit bind list
BindCandidates == {"/bin", "/missing", "/home/u/nix"}
\* the mount point name reserved for the dependency store
StoreName == "nix"
\* nix_dir when not overridden: <directory of the executable>/nix
NixDir == "/app/nix"

\* Path::file_name(): the final component of the path
FileName(path) ==
    CASE path = "/bin"        -> "bin"
      [] path = "/init"       -> "init"
      [] path = "/nix"        -> "nix"
      [] path = "/missing"    -> "missing"
      [] path = "/home/u/nix" -> "nix"
      [] path = "/app/nix"    -> "nix"

\* Path::is_dir(): /init is a regular file, every other existing path a directory
IsDir(path) == path \in {"/bin", "/nix", "/home/u/nix", "/app/nix"}

VARIABLES
    host,               \* the environment: euid, host root, companion paths
    cli,                \* the parsed command line (struct Cli)
    new_user_namespace, \* AppRun.new_user_namespace
    pc,                 \* position of the main thread
    log,                \* system calls issued so far, in order, with their results
    paths_to_bind,      \* the local paths_to_bind of mounts()
    idx,                \* index of the current element of `for path in paths_to_bind`
    call,               \* arguments of the rec_bind_mount call in progress
    thread,             \* thread[i]: state of the probe thread spawned for entry i
    chan,               \* chan[i]: content of the mpsc channel of probe i
    rx,                 \* rx[i]: the receiver of probe i has not been dropped
    elapsed,            \* ticks spent in the current recv_timeout
    outcome,            \* outcome[i]: what with_timeout returned for entry i
    mounted,            \* successful bind mounts: records [src, dst]
    failedOp,           \* the operation whose error ended the run ("" if none)
    idm                 \* an identity mapping being serialized and parsed (id_map.rs)

vars == <<host, cli, new_user_namespace, pc, log, paths_to_bind, idx, call,
          thread, chan, rx, elapsed, outcome, mounted, failedOp, idm>>

\* a path exists on the host iff it is a root entry or the nested /home/u/nix
Exists(path) == path \in host.root \cup {"/home/u/nix"}

\* sequences over S of length at most n
SeqsUpTo(S, n) == UNION {[1..k -> S] : k \in 0..n}

\* every order in which read_dir may yield the entries of S
Orders(S) == {s \in [1..Cardinality(S) -> S] : \A i, j \in DOMAIN s : i # j => s[i] # s[j]}

NoCall == [path |-> "", mount_path |-> "", i |-> 0]

Entry(op, arg, i, ok) == [op |-> op, arg |-> arg, i |-> i, ok |-> ok]

Logged(op, arg, i, ok) == log' = Append(log, Entry(op, arg, i, ok))

(* ------------------------- id_map.rs: UidMap, GidMap ------------------- *)
\* width of an id in bits explored by the model (uid_t has 32 in the code)
IdBits == 16

\* largest value of the id type; parse::<uid_t>() rejects anything above it
IdMax == 2^IdBits - 1

DigitChars == <<"0", "1", "2", "3", "4", "5", "6", "7", "8", "9">>

\* str::split_whitespace() separators
Whitespace == {" ", "\t", "\n"}

\* Display of an unsigned integer: its decimal digits, most significant first
RECURSIVE Decimal(_)
Decimal(n) ==
    IF n < 10 THEN <<DigitChars[n + 1]>>
              ELSE Decimal(n \div 10) \o <<DigitChars[(n % 10) + 1]>>

\* a serialization that writes the outside id first
ToStr_Mut(m) ==
    Decimal(m.outside_id) \o <<" ">> \o Decimal(m.inside_id) \o <<" ">> \o Decimal(m.count)

\* id_map.rs 33-41: format!("{inside_id} {outside_id} {count}")
ToStr(m) ==
    Decimal(m.inside_id) \o <<" ">> \o Decimal(m.outside_id) \o <<" ">> \o Decimal(m.count)

\* id_map.rs 21: the maximal runs of non-whitespace characters, in order
RECURSIVE SplitWhitespace(_, _, _)
SplitWhitespace(s, cur, acc) ==
    LET done == IF cur = <<>> THEN acc ELSE Append(acc, cur) IN
    IF s = <<>> THEN done
    ELSE IF Head(s) \in Whitespace THEN SplitWhitespace(Tail(s), <<>>, done)
    ELSE SplitWhitespace(Tail(s), Append(cur, Head(s)), acc)

DigitValue(c) == CHOOSE d \in 0..9 : DigitChars[d + 1] = c

IsDigit(c) == \E d \in 0..9 : DigitChars[d + 1] = c

\* str::parse::<uid_t>() after an optional sign: digits accumulated with an
\* overflow check; -1 stands for the ParseIntError
RECURSIVE ParseDigits(_, _)
ParseDigits(s, acc) ==
    IF s = <<>> THEN acc
    ELSE IF ~IsDigit(Head(s)) THEN -1
    ELSE LET v == acc * 10 + DigitValue(Head(s)) IN
         IF v > IdMax THEN -1 ELSE ParseDigits(Tail(s), v)

\* id_map.rs 22-24: parse::<uid_t>() of one token
ParseId(tok) ==
    LET body == IF tok # <<>> /\ Head(tok) = "+" THEN Tail(tok) ELSE tok IN
    IF body = <<>> THEN -1 ELSE ParseDigits(body, 0)

ParseResult(res, a, b, c) == [res |-> res, inside_id |-> a, outside_id |-> b, count |-> c]

\* id_map.rs 20-30: three tokens, each unwrapped (a panic when missing) and
\* parsed with `?`; tokens after the third are ignored
FromStr(s) ==
    LET parts == SplitWhitespace(s, <<>>, <<>>) IN
    IF Len(parts) = 0 THEN ParseResult("panic", 0, 0, 0)
    ELSE IF ParseId(parts[1]) < 0 THEN ParseResult("Err", 0, 0, 0)
    ELSE IF Len(parts) = 1 THEN ParseResult("panic", 0, 0, 0)
    ELSE IF ParseId(parts[2]) < 0 THEN ParseResult("Err", 0, 0, 0)
    ELSE IF Len(parts) = 2 THEN ParseResult("panic", 0, 0, 0)
    ELSE IF ParseId(parts[3]) < 0 THEN ParseResult("Err", 0, 0, 0)
    ELSE ParseResult("Ok", ParseId(parts[1]), ParseId(parts[2]), ParseId(parts[3]))

\* ids and counts the mappings are built from, up to the limit of the type
SampleIds == {0, 7, 1000, IdMax - 1, IdMax}

SampleCounts == {1, 10, IdMax}

NoMapping == [inside_id |-> 0, outside_id |-> 0, count |-> 0]

\* the state of idm while the launcher itself runs: no mapping under test
NoIdMap == [step |-> "none", kind |-> "", map |-> NoMapping, text |-> <<>>,
            parsed |-> ParseResult("none", 0, 0, 0)]

\* host roots explored together with an explicit bind list: the full root and a
\* minimal one, which has fewer entries than a bind list can name
ExplicitRoots == {RootEntries, {"/bin"}}

(* ------------------------------ Init ----------------------------------- *)
Init ==
    /\ \E root \in BOOLEAN, nd \in BOOLEAN, md \in BOOLEAN,
          ek \in {"missing", "symlink", "file"}, hr \in SUBSET RootEntries,
          bg \in BOOLEAN, eg \in BOOLEAN, bl \in SeqsUpTo(BindCandidates, MaxBinds) :
          /\ bg => hr \in ExplicitRoots
          /\ ~bg => bl = <<>>
          /\ host = [euid_root |-> root, nix_dir_exists |-> nd,
                     mount_dir_exists |-> md, entrypoint |-> ek, root |-> hr]
          /\ cli = [bind_some |-> bg, bind |-> bl, entrypoint_some |-> eg]
    /\ new_user_namespace = FALSE
    /\ pc = "main"
    /\ log = <<>>
    /\ paths_to_bind = <<>>
    /\ idx = 0
    /\ call = NoCall
    /\ thread = <<>>
    /\ chan = <<>>
    /\ rx = <<>>
    /\ elapsed = 0
    /\ outcome = <<>>
    /\ mounted = {}
    /\ failedOp = ""
    /\ idm = NoIdMap

\* `?` on an Err: the error propagates out of main and the process exits nonzero
Abort(op) == /\ pc' = "exited_err"
             /\ failedOp' = op

\* the `?` operator: continue at next on Ok, return the error on Err
Try(ok, op, next) == IF ok THEN pc' = next /\ failedOp' = failedOp ELSE Abort(op)

(* ------------------------------ main ----------------------------------- *)
\* main.rs 340-351
CheckNixDir ==
    /\ pc = "main"
    /\ Try(host.nix_dir_exists, "nix_dir", "check_mount_dir")
    /\ UNCHANGED <<idm, host, cli, new_user_namespace, log, paths_to_bind, idx, call,
                   thread, chan, rx, elapsed, outcome, mounted>>

\* main.rs 353-364
CheckMountDir ==
    /\ pc = "check_mount_dir"
    /\ Try(host.mount_dir_exists, "mount_dir", "check_entrypoint")
    /\ UNCHANGED <<idm, host, cli, new_user_namespace, log, paths_to_bind, idx, call,
                   thread, chan, rx, elapsed, outcome, mounted>>

\* fs::symlink_metadata(entrypoint).is_ok(): lstat succeeds on anything that exists
SymlinkMetadataOk(kind) == kind # "missing"

\* main.rs 366-376: the override is taken unchecked, the default is lstat'ed
EntrypointAccepted == cli.entrypoint_some \/ SymlinkMetadataOk(host.entrypoint)

CheckEntrypoint ==
    /\ pc = "check_entrypoint"
    /\ Try(EntrypointAccepted, "entrypoint", "exec_in_chroot")
    /\ UNCHANGED <<idm, host, cli, new_user_namespace, log, paths_to_bind, idx, call,
                   thread, chan, rx, elapsed, outcome, mounted>>

(* ------------------------- exec_in_chroot ------------------------------ *)
\* exec_in_chroot without the euid test: the configured flag is used as is
RequireUserNs_Mut(flag, euid_root) == flag

\* main.rs 74-76
RequireUserNs(flag, euid_root) == IF ~euid_root THEN TRUE ELSE flag

ExecInChroot ==
    /\ pc = "exec_in_chroot"
    /\ new_user_namespace' = RequireUserNs(new_user_namespace, host.euid_root)
    /\ pc' = "unshare"
    /\ UNCHANGED <<idm, host, cli, log, paths_to_bind, idx, call, thread, chan, rx,
                   elapsed, outcome, mounted, failedOp>>

(* ------------------------------ mounts --------------------------------- *)
\* main.rs 199-203
CloneFlags(user_ns) == IF user_ns THEN "CLONE_NEWUSER|CLONE_NEWNS" ELSE "CLONE_NEWNS"

\* main.rs 205-216: an Err of unshare is only logged; control falls through
AfterUnshare(ok, flags) ==
    IF flags = "CLONE_NEWUSER|CLONE_NEWNS" THEN "write_id_maps" ELSE "mount_rslave"

Unshare ==
    /\ pc = "unshare"
    /\ \E ok \in BOOLEAN :
          /\ Logged("unshare", CloneFlags(new_user_namespace), 0, ok)
          /\ pc' = AfterUnshare(ok, CloneFlags(new_user_namespace))
    /\ UNCHANGED <<idm, host, cli, new_user_namespace, paths_to_bind, idx, call, thread,
                   chan, rx, elapsed, outcome, mounted, failedOp>>

\* write_id_maps with the gid map written before setgroups is denied
IdMapFiles_Mut == <<"/proc/self/uid_map", "/proc/self/gid_map", "/proc/self/setgroups">>

\* main.rs 106-109: the control files in the order write_id_maps writes them
IdMapFiles == <<"/proc/self/uid_map", "/proc/self/setgroups", "/proc/self/gid_map">>

\* number of control files already written in this call of write_id_maps
IdMapsWritten == Cardinality({k \in DOMAIN log : log[k].op = "write"})

\* write_id_maps retrying a rejected write instead of returning its error
WriteIdMaps_Mut ==
    /\ pc = "write_id_maps"
    /\ LET n == Cardinality({k \in DOMAIN log : log[k].op = "write" /\ log[k].ok}) + 1 IN
       \E ok \in BOOLEAN :
          /\ Logged("write", IdMapFiles[n], 0, ok)
          /\ pc' = IF ok /\ n = Len(IdMapFiles) THEN "mount_rslave" ELSE "write_id_maps"
    /\ UNCHANGED <<idm, host, cli, new_user_namespace, paths_to_bind, idx, call, thread,
                   chan, rx, elapsed, outcome, mounted, failedOp>>

\* main.rs 95-113: one fs::write(..)? per step
WriteIdMaps ==
    /\ pc = "write_id_maps"
    /\ LET n == IdMapsWritten + 1 IN
       \E ok \in BOOLEAN :
          /\ Logged("write", IdMapFiles[n], 0, ok)
          /\ Try(ok, "write_id_maps",
                 IF n = Len(IdMapFiles) THEN "mount_rslave" ELSE "write_id_maps")
    /\ UNCHANGED <<idm, host, cli, new_user_namespace, paths_to_bind, idx, call, thread,
                   chan, rx, elapsed, outcome, mounted>>

\* the propagation remount with its error dropped instead of returned
MountRslave_Mut ==
    /\ pc = "mount_rslave"
    /\ \E ok \in BOOLEAN : Logged("mount_rslave", "/", 0, ok)
    /\ pc' = "mount_tmpfs"
    /\ UNCHANGED <<idm, host, cli, new_user_namespace, paths_to_bind, idx, call, thread,
                   chan, rx, elapsed, outcome, mounted, failedOp>>

\* main.rs 221-228
MountRslave ==
    /\ pc = "mount_rslave"
    /\ \E ok \in BOOLEAN :
          /\ Logged("mount_rslave", "/", 0, ok)
          /\ Try(ok, "mount_rslave", "mount_tmpfs")
    /\ UNCHANGED <<idm, host, cli, new_user_namespace, paths_to_bind, idx, call, thread,
                   chan, rx, elapsed, outcome, mounted>>

\* main.rs 231-238
MountTmpfs ==
    /\ pc = "mount_tmpfs"
    /\ \E ok \in BOOLEAN :
          /\ Logged("mount_tmpfs", "mount_dir", 0, ok)
          /\ Try(ok, "mount_tmpfs", "collect")
    /\ UNCHANGED <<idm, host, cli, new_user_namespace, paths_to_bind, idx, call, thread,
                   chan, rx, elapsed, outcome, mounted>>

StartLoop(paths) ==
    /\ paths_to_bind' = paths
    /\ idx' = 1
    /\ thread' = [i \in DOMAIN paths |-> "unspawned"]
    /\ chan' = [i \in DOMAIN paths |-> "empty"]
    /\ rx' = [i \in DOMAIN paths |-> FALSE]
    /\ outcome' = [i \in DOMAIN paths |-> "none"]

\* main.rs 241-246: the explicit list is copied as given
CollectBinds ==
    /\ pc = "collect"
    /\ cli.bind_some
    /\ StartLoop(cli.bind)
    /\ pc' = "loop"
    /\ UNCHANGED <<idm, host, cli, new_user_namespace, log, call, elapsed, mounted, failedOp>>

\* main.rs 247-254: the host root is enumerated, in the order read_dir yields
CollectRoot ==
    /\ pc = "collect"
    /\ ~cli.bind_some
    /\ \E ok \in BOOLEAN :
          /\ Logged("read_dir", "/", 0, ok)
          /\ Try(ok, "read_dir", "loop")
          /\ IF ok THEN \E paths \in Orders(host.root) : StartLoop(paths)
                   ELSE UNCHANGED <<paths_to_bind, idx, thread, chan, rx, outcome>>
    /\ UNCHANGED <<idm, host, cli, new_user_namespace, call, elapsed, mounted>>

\* the loop without its `continue` for the store name
IsStoreName_Mut(name) == FALSE

\* main.rs 260: the reserved store name is never populated by the loop
IsStoreName(name) == name = StoreName

CurrentPath == paths_to_bind[idx]

\* main.rs 256, 287: the for loop is exhausted
LoopDone ==
    /\ pc = "loop"
    /\ idx > Len(paths_to_bind)
    /\ pc' = "store_mkdir"
    /\ UNCHANGED <<idm, host, cli, new_user_namespace, log, paths_to_bind, idx, call,
                   thread, chan, rx, elapsed, outcome, mounted, failedOp>>

\* main.rs 257-262
SkipStoreName ==
    /\ pc = "loop"
    /\ idx <= Len(paths_to_bind)
    /\ IsStoreName(FileName(CurrentPath))
    /\ idx' = idx + 1
    /\ UNCHANGED <<idm, host, cli, new_user_namespace, pc, log, paths_to_bind, call,
                   thread, chan, rx, elapsed, outcome, mounted, failedOp>>

(* ---------------------------- with_timeout ----------------------------- *)
\* a loop that recognises the store only by its top-level path /nix
SpawnProbe_Mut ==
    /\ pc = "loop"
    /\ idx <= Len(paths_to_bind)
    /\ CurrentPath # "/nix"
    /\ thread' = [thread EXCEPT ![idx] = "running"]
    /\ rx' = [rx EXCEPT ![idx] = TRUE]
    /\ elapsed' = 0
    /\ Logged("spawn", CurrentPath, idx, TRUE)
    /\ pc' = "recv_timeout"
    /\ UNCHANGED <<idm, host, cli, new_user_namespace, paths_to_bind, idx, call, chan,
                   outcome, mounted, failedOp>>

\* main.rs 264-265, 122-125: a fresh channel and a fresh thread per probed path
SpawnProbe ==
    /\ pc = "loop"
    /\ idx <= Len(paths_to_bind)
    /\ ~IsStoreName(FileName(CurrentPath))
    /\ thread' = [thread EXCEPT ![idx] = "running"]
    /\ rx' = [rx EXCEPT ![idx] = TRUE]
    /\ elapsed' = 0
    /\ Logged("spawn", CurrentPath, idx, TRUE)
    /\ pc' = "recv_timeout"
    /\ UNCHANGED <<idm, host, cli, new_user_namespace, paths_to_bind, idx, call, chan,
                   outcome, mounted, failedOp>>

\* Path::try_exists(): Ok(false) for a missing path; for an existing one
\* Ok(true), or an I/O error when the path cannot be examined
TryExists(path) == IF Exists(path) THEN {"Ok(true)", "Err"} ELSE {"Ok(false)"}

Running == pc \notin {"execd", "exited_err"}

\* probe threads sharing one channel: a result lands in whatever receiver the
\* main thread is waiting on at that time
ProbeThread_Mut(i) ==
    /\ Running
    /\ thread[i] = "running"
    /\ thread' = [thread EXCEPT ![i] = "finished"]
    /\ \E r \in TryExists(paths_to_bind[i]) :
          chan' = IF pc = "recv_timeout" THEN [chan EXCEPT ![idx] = r] ELSE chan
    /\ UNCHANGED <<idm, host, cli, new_user_namespace, pc, log, paths_to_bind, idx, call,
                   rx, elapsed, outcome, mounted, failedOp>>

\* main.rs 123-125: the closure finishes at some time and sends its result;
\* a send on a channel whose receiver is gone fails and is ignored
ProbeThread(i) ==
    /\ Running
    /\ thread[i] = "running"
    /\ thread' = [thread EXCEPT ![i] = "finished"]
    /\ \E r \in TryExists(paths_to_bind[i]) :
          chan' = IF rx[i] THEN [chan EXCEPT ![i] = r] ELSE chan
    /\ UNCHANGED <<idm, host, cli, new_user_namespace, pc, log, paths_to_bind, idx, call,
                   rx, elapsed, outcome, mounted, failedOp>>

\* main.rs 127: time passes while recv_timeout waits on an empty channel
Tick ==
    /\ pc = "recv_timeout"
    /\ chan[idx] = "empty"
    /\ elapsed < TimeoutTicks
    /\ elapsed' = elapsed + 1
    /\ UNCHANGED <<idm, host, cli, new_user_namespace, pc, log, paths_to_bind, idx, call,
                   thread, chan, rx, outcome, mounted, failedOp>>

\* a match that maps only Ok(false) to false
ExistsOf_Mut(result) == result # "Ok(false)"

\* main.rs 265-277: the three arms of the match
ExistsOf(result) == result = "Ok(true)"

\* a loop that probes the same entry again after a timeout
AfterProbe_Mut(result) ==
    /\ outcome' = [outcome EXCEPT ![idx] = result]
    /\ rx' = [rx EXCEPT ![idx] = FALSE]
    /\ elapsed' = 0
    /\ IF ExistsOf(result)
          THEN /\ call' = [path |-> CurrentPath, mount_path |-> FileName(CurrentPath),
                           i |-> idx]
               /\ pc' = "rec_bind_mount"
               /\ idx' = idx
          ELSE /\ call' = call
               /\ pc' = "loop"
               /\ idx' = IF result = "Timeout" THEN idx ELSE idx + 1

\* main.rs 279-284: skip, or call rec_bind_mount(&path, &mount_path)
AfterProbe(result) ==
    /\ outcome' = [outcome EXCEPT ![idx] = result]
    /\ rx' = [rx EXCEPT ![idx] = FALSE]
    /\ elapsed' = 0
    /\ IF ExistsOf(result)
          THEN /\ call' = [path |-> CurrentPath, mount_path |-> FileName(CurrentPath),
                           i |-> idx]
               /\ pc' = "rec_bind_mount"
               /\ idx' = idx
          ELSE /\ call' = call
               /\ pc' = "loop"
               /\ idx' = idx + 1

\* main.rs 127: a value arrived before the deadline
RecvResult ==
    /\ pc = "recv_timeout"
    /\ chan[idx] # "empty"
    /\ AfterProbe(chan[idx])
    /\ UNCHANGED <<idm, host, cli, new_user_namespace, log, paths_to_bind, thread, chan,
                   mounted, failedOp>>

\* main.rs 127: the deadline passed with the channel still empty
TimedOut == chan[idx] = "empty" /\ elapsed = TimeoutTicks

RecvTimeout ==
    /\ pc = "recv_timeout"
    /\ TimedOut
    /\ AfterProbe("Timeout")
    /\ UNCHANGED <<idm, host, cli, new_user_namespace, log, paths_to_bind, thread, chan,
                   mounted, failedOp>>

(* --------------------------- rec_bind_mount ---------------------------- *)
\* a placeholder that is always a directory, whatever the source is
PlaceholderOp_Mut(path) == "create_dir_all"

\* main.rs 142-150: the placeholder is a directory for a directory, else a file
PlaceholderOp(path) == IF IsDir(path) THEN "create_dir_all" ELSE "write_file"

\* rec_bind_mount warning about a placeholder it could not create and going on
CreatePlaceholder_Mut ==
    /\ pc = "rec_bind_mount"
    /\ \E ok \in BOOLEAN :
          Logged(PlaceholderOp(call.path), call.mount_path, call.i, ok)
    /\ pc' = "bind_mount"
    /\ UNCHANGED <<idm, host, cli, new_user_namespace, paths_to_bind, idx, call, thread,
                   chan, rx, elapsed, outcome, mounted, failedOp>>

CreatePlaceholder ==
    /\ pc = "rec_bind_mount"
    /\ \E ok \in BOOLEAN :
          /\ Logged(PlaceholderOp(call.path), call.mount_path, call.i, ok)
          /\ Try(ok, "placeholder", "bind_mount")
    /\ UNCHANGED <<idm, host, cli, new_user_namespace, paths_to_bind, idx, call, thread,
                   chan, rx, elapsed, outcome, mounted>>

\* rec_bind_mount returning the mount error instead of warning
BindResult_Mut(ok, ret) == IF ok THEN ret ELSE "exited_err"

\* main.rs 154-158: an Err of mount is only warned about; Ok(()) is returned
BindResult(ok, ret) == ret

\* where rec_bind_mount returns to: the loop (main.rs 284) or mounts' end (291)
ReturnPc == IF call.i = 0 THEN "chroot" ELSE "loop"

BindMount ==
    /\ pc = "bind_mount"
    /\ \E ok \in BOOLEAN :
          /\ Logged("mount_bind", call.path, call.i, ok)
          /\ mounted' = IF ok
                THEN mounted \cup {[src |-> call.path, dst |-> call.mount_path]}
                ELSE mounted
          /\ pc' = BindResult(ok, ReturnPc)
          /\ failedOp' = IF pc' = "exited_err" THEN "mount_bind" ELSE failedOp
    /\ idx' = IF call.i = 0 THEN idx ELSE idx + 1
    /\ call' = NoCall
    /\ UNCHANGED <<idm, host, cli, new_user_namespace, paths_to_bind, thread, chan, rx,
                   elapsed, outcome>>

\* immediate children of a host directory (the bundled store holds a and b)
HostChildren(path) == IF path = NixDir THEN {"a", "b"} ELSE {}

\* main.rs 135, 146: MS_BIND|MS_REC shows the whole tree of the source at the
\* target, so the children seen at an overlay name are those of its sources
Exposed(name) == UNION {HostChildren(m.src) : m \in {n \in mounted : n.dst = name}}

(* ---------------------------- store merge ------------------------------ *)
\* main.rs 288-291
StoreMkdir ==
    /\ pc = "store_mkdir"
    /\ \E ok \in BOOLEAN :
          /\ Logged("create_dir_all", StoreName, 0, ok)
          /\ Try(ok, "store_mkdir", "rec_bind_mount")
          /\ call' = IF ok THEN [path |-> NixDir, mount_path |-> StoreName, i |-> 0]
                           ELSE call
    /\ UNCHANGED <<idm, host, cli, new_user_namespace, paths_to_bind, idx, thread, chan,
                   rx, elapsed, outcome, mounted>>

(* ------------------------------- chroot -------------------------------- *)
\* working directories the launcher may be started from
WorkingDirs == {"/", "/home/u"}

\* main.rs 301: env::current_dir() yields the absolute working directory
CurrentDir ==
    /\ pc = "chroot"
    /\ \E ok \in BOOLEAN, dir \in WorkingDirs :
          /\ ok \/ dir = "/"
          /\ Logged("current_dir", IF ok THEN dir ELSE "", 0, ok)
          /\ Try(ok, "current_dir", "chroot_call")
    /\ UNCHANGED <<idm, host, cli, new_user_namespace, paths_to_bind, idx, call, thread,
                   chan, rx, elapsed, outcome, mounted>>

\* main.rs 303
Chroot ==
    /\ pc = "chroot_call"
    /\ \E ok \in BOOLEAN :
          /\ Logged("chroot", "mount_dir", 0, ok)
          /\ Try(ok, "chroot", "set_current_dir")
    /\ UNCHANGED <<idm, host, cli, new_user_namespace, paths_to_bind, idx, call, thread,
                   chan, rx, elapsed, outcome, mounted>>

\* a root switch that falls back to the new root as working directory
CapturedDir_Mut == "/"

\* main.rs 301, 305: the local current_dir still holds what was captured
CapturedDir ==
    LET k == CHOOSE k \in DOMAIN log : log[k].op = "current_dir" IN log[k].arg

\* main.rs 305
SetCurrentDir ==
    /\ pc = "set_current_dir"
    /\ \E ok \in BOOLEAN :
          /\ Logged("set_current_dir", CapturedDir, 0, ok)
          /\ Try(ok, "set_current_dir", "execve")
    /\ UNCHANGED <<idm, host, cli, new_user_namespace, paths_to_bind, idx, call, thread,
                   chan, rx, elapsed, outcome, mounted>>

\* main.rs 82-91: on success the process image is replaced
Execve ==
    /\ pc = "execve"
    /\ \E ok \in BOOLEAN :
          /\ Logged("execve", "entrypoint", 0, ok)
          /\ Try(ok, "execve", "execd")
    /\ UNCHANGED <<idm, host, cli, new_user_namespace, paths_to_bind, idx, call, thread,
                   chan, rx, elapsed, outcome, mounted>>

Next ==
    \/ CheckNixDir
    \/ CheckMountDir
    \/ CheckEntrypoint
    \/ ExecInChroot
    \/ Unshare
    \/ WriteIdMaps
    \/ MountRslave
    \/ MountTmpfs
    \/ CollectBinds
    \/ CollectRoot
    \/ LoopDone
    \/ SkipStoreName
    \/ SpawnProbe
    \/ \E i \in DOMAIN thread : ProbeThread(i)
    \/ Tick
    \/ RecvResult
    \/ RecvTimeout
    \/ CreatePlaceholder
    \/ BindMount
    \/ StoreMkdir
    \/ CurrentDir
    \/ Chroot
    \/ SetCurrentDir
    \/ Execve

Spec == Init /\ [][Next]_vars

TypeOK ==
    /\ pc \in {"main", "check_mount_dir", "check_entrypoint", "exec_in_chroot",
               "unshare", "write_id_maps", "mount_rslave", "mount_tmpfs", "collect",
               "loop", "recv_timeout", "rec_bind_mount", "bind_mount", "store_mkdir",
               "chroot", "chroot_call", "set_current_dir", "execve", "execd",
               "exited_err"}
    /\ new_user_namespace \in BOOLEAN
    /\ elapsed \in 0..TimeoutTicks
(* ------------- id_map.rs: serializing and parsing a mapping ------------- *)
\* the launcher's own variables play no part while a mapping is converted
launcherVars == <<host, cli, new_user_namespace, pc, log, paths_to_bind, idx, call,
                  thread, chan, rx, elapsed, outcome, mounted, failedOp>>

\* a UidMap or GidMap built from arbitrary ids and a positive count
InitIdMap ==
    /\ host = [euid_root |-> TRUE, nix_dir_exists |-> TRUE, mount_dir_exists |-> TRUE,
               entrypoint |-> "symlink", root |-> RootEntries]
    /\ cli = [bind_some |-> FALSE, bind |-> <<>>, entrypoint_some |-> FALSE]
    /\ new_user_namespace = FALSE
    /\ pc = "main"
    /\ log = <<>>
    /\ paths_to_bind = <<>>
    /\ idx = 0
    /\ call = NoCall
    /\ thread = <<>>
    /\ chan = <<>>
    /\ rx = <<>>
    /\ elapsed = 0
    /\ outcome = <<>>
    /\ mounted = {}
    /\ failedOp = ""
    /\ \E kind \in {"Uid", "Gid"}, a \in SampleIds, b \in SampleIds, c \in SampleCounts :
          idm = [step |-> "built", kind |-> kind,
                 map |-> [inside_id |-> a, outside_id |-> b, count |-> c],
                 text |-> <<>>, parsed |-> ParseResult("none", 0, 0, 0)]

\* id_map.rs 33-41: to_string()
to_string ==
    /\ idm.step = "built"
    /\ idm' = [idm EXCEPT !.step = "serialized", !.text = ToStr(idm.map)]
    /\ UNCHANGED launcherVars

\* id_map.rs 17-31: from_str() of the serialized line
from_str ==
    /\ idm.step = "serialized"
    /\ idm' = [idm EXCEPT !.step = "parsed", !.parsed = FromStr(idm.text)]
    /\ UNCHANGED launcherVars

NextIdMap ==
    \/ to_string
    \/ from_str

SpecIdMap == InitIdMap /\ [][NextIdMap]_vars

(* ============================ properties =============================== *)
Ops(S) == {k \in DOMAIN log : log[k].op \in S}

PlaceholderOps == {"create_dir_all", "write_file"}

\* log positions of the bind work done for entries of paths_to_bind
EntryBindOps == {k \in Ops(PlaceholderOps \cup {"mount_bind"}) : log[k].i > 0}

StoreMount == [src |-> NixDir, dst |-> StoreName]

\* C1: when an explicit bind list names a source path that does not exist, the
\* run aborts before anything is bound: no placeholder is created, no bind
\* mount is issued, and the root switch and exec are never reached.
C1_MissingBindAborts ==
    (cli.bind_some /\ \E k \in DOMAIN cli.bind : ~Exists(cli.bind[k]))
        => Ops(PlaceholderOps \cup {"mount_bind", "chroot", "execve"}) = {}

\* C2: a rejected unshare ends the run: it is the last system call issued and
\* the process has exited with an error.
C2_UnshareRejectedIsFatal ==
    \A k \in Ops({"unshare"}) : ~log[k].ok => (k = Len(log) /\ pc = "exited_err")

\* C3: the root switch and exec are reached only in runs in which the bind
\* mount of the dependency store onto the overlay's store mount point succeeded.
C3_StoreMergeAllOrNothing ==
    Ops({"chroot", "execve"}) # {} => StoreMount \in mounted

\* C4: with a missing store directory, a missing overlay directory, or an
\* entrypoint that is missing or not a symbolic link, no system call touching
\* namespace or mount state is ever issued.
C4_ConfigErrorsBeforeAnyState ==
    (~host.nix_dir_exists \/ ~host.mount_dir_exists \/ host.entrypoint # "symlink")
        => log = <<>>

\* the stage of the run state machine a logged system call belongs to
Stage(e) ==
    CASE e.op = "unshare"      -> 1
      [] e.op = "write"        -> 2
      [] e.op = "mount_rslave" -> 3
      [] e.op = "mount_tmpfs"  -> 4
      [] e.op \in {"read_dir", "spawn"} -> 5
      [] e.op \in PlaceholderOps \cup {"mount_bind"} -> IF e.i > 0 THEN 5 ELSE 6
      [] e.op \in {"current_dir", "chroot", "set_current_dir"} -> 7
      [] e.op = "execve"       -> 8

\* C5: the stages occur in the fixed order namespace, identity map, propagation
\* remount, tmpfs, entries, store merge, root switch, exec; each one-shot call
\* is issued at most once; and a later stage is entered only after every call
\* of the earlier stages other than an individual bind mount has succeeded.
C5_StagesInOrder ==
    /\ \A j, k \in DOMAIN log : j < k => Stage(log[j]) <= Stage(log[k])
    /\ \A j, k \in Ops({"unshare", "write", "mount_rslave", "mount_tmpfs", "chroot",
                        "execve"}) :
          (log[j].op = log[k].op /\ log[j].arg = log[k].arg) => j = k
    /\ \A j, k \in DOMAIN log :
          (j < k /\ Stage(log[j]) < Stage(log[k]) /\ log[j].op # "mount_bind")
              => log[j].ok

\* C6: when the effective uid is not root, every unshare request asks for the
\* combined user+mount namespace.
C6_UnprivilegedRequestsUserNs ==
    ~host.euid_root =>
        \A k \in Ops({"unshare"}) : log[k].arg = "CLONE_NEWUSER|CLONE_NEWNS"

C6_Witness == ~host.euid_root /\ Ops({"unshare"}) # {}

Writes(file) == {k \in Ops({"write"}) : log[k].arg = file}

\* C7: the gid map is written only after a successful write of the setgroups
\* deny directive, and setgroups only after a successful write of the uid map.
C7_IdMapOrder ==
    /\ \A k \in Writes("/proc/self/gid_map") :
          \E j \in Writes("/proc/self/setgroups") : j < k /\ log[j].ok
    /\ \A k \in Writes("/proc/self/setgroups") :
          \E j \in Writes("/proc/self/uid_map") : j < k /\ log[j].ok

C7_Witness == Writes("/proc/self/gid_map") # {}

\* C8: a probe that times out or returns an error makes the path be skipped:
\* bind work is done only for entries whose own probe returned Ok(true), the
\* wait never exceeds the timeout, and a probe that did not return Ok(true)
\* moves the loop to the next entry without any system call and without
\* ending the run.
C8_ProbeSoftFail ==
    /\ [](/\ \A k \in EntryBindOps : outcome[log[k].i] = "Ok(true)"
          /\ pc = "recv_timeout" => elapsed <= TimeoutTicks
          /\ failedOp \notin {"spawn", "recv_timeout"})
    /\ [][(pc = "recv_timeout" /\ pc' # "recv_timeout" /\ outcome'[idx] # "Ok(true)")
            => (pc' = "loop" /\ idx' = idx + 1 /\ log' = log /\ mounted' = mounted)]_vars

C8_Witness ==
    /\ pc = "execd"
    /\ \E i, j \in DOMAIN outcome : outcome[i] = "Timeout" /\ outcome[j] = "Err"

\* C9: without an explicit bind list, no entry named nix is ever probed or
\* bound by the loop, and the overlay's nix mount point is mounted only from
\* the configured store directory.
C9_AutoDiscoverySkipsStore ==
    ~cli.bind_some =>
        /\ \A k \in DOMAIN log :
              log[k].i > 0 => FileName(paths_to_bind[log[k].i]) # StoreName
        /\ \A m \in mounted : m.dst = StoreName => m = StoreMount

C9_Witness ==
    /\ ~cli.bind_some
    /\ "/nix" \in host.root
    /\ StoreMount \in mounted
    /\ Cardinality(mounted) > 1

\* C10: a failed bind mount of an individual entry leaves that entry unmounted
\* and the loop goes on with the next entry; it never ends the run.
C10_EntryMountSoftFail ==
    /\ [](failedOp # "mount_bind")
    /\ [][(/\ Len(log') = Len(log) + 1
           /\ log'[Len(log')].op = "mount_bind"
           /\ log'[Len(log')].i > 0
           /\ ~log'[Len(log')].ok)
            => (pc' = "loop" /\ idx' = idx + 1 /\ mounted' = mounted)]_vars

C10_Witness ==
    /\ pc = "execd"
    /\ StoreMount \in mounted
    /\ \E j, k \in Ops({"mount_bind"}) :
          /\ log[j].i > 0 /\ ~log[j].ok
          /\ log[k].i > log[j].i /\ log[k].ok
\* C11: every bind mount call is immediately preceded by the successful creation
\* of its target placeholder: create_dir_all when the source is a directory, an
\* empty file written otherwise.
C11_PlaceholderBeforeMount ==
    \A k \in Ops({"mount_bind"}) :
        /\ k > 1
        /\ log[k - 1].op = (IF IsDir(log[k].arg) THEN "create_dir_all" ELSE "write_file")
        /\ log[k - 1].i = log[k].i
        /\ log[k - 1].arg = (IF log[k].i = 0 THEN StoreName
                                             ELSE FileName(paths_to_bind[log[k].i]))
        /\ log[k - 1].ok

C11_Witness ==
    \E j, k \in Ops({"mount_bind"}) : IsDir(log[j].arg) /\ ~IsDir(log[k].arg)

\* C12: a failed propagation remount of / or a failed tmpfs mount is the last
\* system call of the run, which exits with an error: no bind mount, store
\* merge, root switch or exec follows.
C12_FoundationMountsFatal ==
    \A k \in Ops({"mount_rslave", "mount_tmpfs"}) :
        ~log[k].ok => (k = Len(log) /\ pc = "exited_err")

C12_Witness ==
    /\ \E k \in Ops({"mount_rslave"}) : ~log[k].ok
    /\ pc = "exited_err"
\* overlay construction is over and every probe and system call succeeded
AllSucceeded ==
    /\ pc \in {"chroot", "chroot_call", "set_current_dir", "execve", "execd"}
    /\ \A k \in Ops({"read_dir", "mount_bind"} \cup PlaceholderOps) : log[k].ok
    /\ \A i \in DOMAIN outcome : outcome[i] \in {"none", "Ok(true)"}

\* C13: with no explicit bind list and every probe and mount successful, the
\* overlay holds exactly one bind mount per host root entry other than nix, at
\* the entry's own name, plus the store mount, which exposes every child of
\* the configured store directory; the host's /nix is not bound.
C13_AutoDiscoveryOverlay ==
    (~cli.bind_some /\ AllSucceeded) =>
        /\ mounted = {[src |-> p, dst |-> FileName(p)] : p \in host.root \ {"/nix"}}
                        \cup {StoreMount}
        /\ Exposed(StoreName) = HostChildren(NixDir)

C13_Witness ==
    /\ ~cli.bind_some /\ AllSucceeded
    /\ host.root = RootEntries
    /\ Cardinality(mounted) = 3

\* C15: the root switch is issued only after the working directory was
\* captured, the working directory is then set to exactly the captured path,
\* exec is attempted only after that succeeded, and a failure of any of the
\* three calls is the last system call of a run that exits with an error.
C15_SwitchRoot ==
    /\ \A k \in Ops({"chroot"}) :
          \E j \in Ops({"current_dir"}) : j < k /\ log[j].ok
    /\ \A k \in Ops({"set_current_dir"}) :
          \E c \in Ops({"current_dir"}), j \in Ops({"chroot"}) :
              c < j /\ j < k /\ log[j].ok /\ log[c].ok /\ log[k].arg = log[c].arg
    /\ \A k \in Ops({"execve"}) :
          \E j \in Ops({"set_current_dir"}) : j < k /\ log[j].ok
    /\ \A k \in Ops({"current_dir", "chroot", "set_current_dir"}) :
          ~log[k].ok => (k = Len(log) /\ pc = "exited_err")

C15_Witness ==
    /\ pc = "execd"
    /\ \E k \in Ops({"set_current_dir"}) : log[k].ok /\ log[k].arg = "/home/u"
\* C16: each identity-map control file is written at most once in a run, and a
\* rejected write is the last system call of the run, which exits with an
\* error: no further control file is written and nothing is mounted.
C16_IdMapWritesOnceNoRetry ==
    /\ \A j, k \in Ops({"write"}) : log[j].arg = log[k].arg => j = k
    /\ \A k \in Ops({"write"}) : ~log[k].ok => (k = Len(log) /\ pc = "exited_err")

C16_Witness ==
    /\ pc = "exited_err"
    /\ \E k \in Writes("/proc/self/setgroups") : ~log[k].ok
\* entries for which with_timeout spawned a thread, and those whose thread was
\* left behind when recv_timeout gave up
Probed == {i \in DOMAIN thread : thread[i] # "unspawned"}

Abandoned == {i \in DOMAIN outcome : outcome[i] = "Timeout"}

\* one thread per probed entry and no thread for anything else
OneThreadPerProbe ==
    /\ \A j, k \in Ops({"spawn"}) : log[j].i = log[k].i => j = k
    /\ {log[k].i : k \in Ops({"spawn"})} = Probed
    /\ Abandoned \subseteq Probed

C18_LateProbeHasNoEffect ==
    /\ [](\A i \in DOMAIN outcome :
            /\ chan[i] # "empty" =>
                  (thread[i] = "finished" /\ chan[i] \in TryExists(paths_to_bind[i]))
            /\ outcome[i] \notin {"none", "Timeout"} =>
                  (thread[i] = "finished" /\ outcome[i] = chan[i])
            /\ outcome[i] = "Timeout" => chan[i] = "empty")
    /\ [][\A i \in DOMAIN thread :
            (thread[i] = "running" /\ ~rx[i] /\ thread'[i] = "finished")
                => UNCHANGED <<idm, host, cli, new_user_namespace, pc, log, paths_to_bind,
                               idx, call, chan, rx, elapsed, outcome, mounted,
                               failedOp>>]_vars

C18_Witness ==
    \E i, j \in DOMAIN outcome :
        /\ i < j
        /\ outcome[i] = "Timeout" /\ thread[i] = "finished"
        /\ Exists(paths_to_bind[i])
        /\ outcome[j] = "Ok(false)"
\* paths whose final component is the reserved store name
StoreNamed == {"/nix", "/home/u/nix", "/app/nix"}

\* C19: with an explicit bind list, a listed path whose final component is nix,
\* at any depth, is never probed and never bound, and the overlay's nix mount
\* point is mounted only from the configured store directory.
C19_ExplicitListSkipsStoreName ==
    cli.bind_some =>
        /\ \A i \in DOMAIN paths_to_bind :
              paths_to_bind[i] \in StoreNamed =>
                  /\ thread[i] = "unspawned" /\ outcome[i] = "none"
                  /\ \A k \in DOMAIN log : log[k].i # i
        /\ \A m \in mounted : (m.dst = StoreName \/ m.src \in StoreNamed) => m = StoreMount

C19_Witness ==
    /\ cli.bind_some
    /\ \E i \in DOMAIN paths_to_bind : paths_to_bind[i] = "/home/u/nix" /\ i < idx
    /\ StoreMount \in mounted
    /\ Cardinality(mounted) = 2

\* C20: a failed creation of a target placeholder (directory or empty file) is
\* the last system call of the run, which exits with an error: the mount for
\* that entry is not issued, no later entry is bound, and the store merge, the
\* root switch and exec are not reached.
C20_PlaceholderFailureFatal ==
    \A k \in Ops(PlaceholderOps) : ~log[k].ok => (k = Len(log) /\ pc = "exited_err")

C20_Witness ==
    /\ pc = "exited_err"
    /\ \E k \in Ops(PlaceholderOps) :
          ~log[k].ok /\ log[k].i > 0 /\ log[k].i < Len(paths_to_bind)
\* C14: the serialized mapping is one line of exactly three tokens, the decimal
\* digits of inside id, outside id and count separated by whitespace, and
\* parsing that line succeeds with the same inside id, outside id and count,
\* for the user-id and the group-id mapping alike.
C14_IdMapRoundTrip ==
    /\ idm.step \in {"serialized", "parsed"} =>
          LET parts == SplitWhitespace(idm.text, <<>>, <<>>) IN
          /\ \A k \in DOMAIN idm.text : idm.text[k] # "\n"
          /\ Len(parts) = 3
          /\ \A p \in DOMAIN parts : \A k \in DOMAIN parts[p] : IsDigit(parts[p][k])
    /\ idm.step = "parsed" =>
          idm.parsed = ParseResult("Ok", idm.map.inside_id, idm.map.outside_id,
                                   idm.map.count)

C14_Witness ==
    /\ idm.step = "parsed"
    /\ idm.kind = "Gid"
    /\ idm.map = [inside_id |-> 1000, outside_id |-> IdMax, count |-> 10]
    /\ idm.text = <<"1", "0", "0", "0", " ", "6", "5", "5", "3", "5", " ", "1", "0">>
====
